---------------------------- MODULE Spec2Model ----------------------------
(***************************************************************************)
(* A model of proxy.c: main (the signal mask, the accept loop, the         *)
(* client_info records it allocates) and the session thread serve, with    *)
(* clienterror.  Byte strings are TLA+ strings, so the outbound request    *)
(* and the error pages are the texts the C code builds.  The parser        *)
(* (http_parser.h) and the rio package (csapp.h) are not part of proxy.c;  *)
(* they are modelled from their contracts.                                 *)
(***************************************************************************)
EXTENDS Integers, Sequences, FiniteSets, TLC

VARIABLES
    sess,      \* one record per created session thread, in order of creation
    backlog,   \* connections that will still arrive at the listening socket
    env,       \* which inputs the peers draw from: fixed by the initial state
    heap,      \* the client_info records main has allocated, by address
    proc       \* the process: where main is, the signals it blocks, alive or killed

vars == <<sess, backlog, env, heap, proc>>

(***************************************************************************)
(* Bounds of the model.                                                    *)
(***************************************************************************)
\* header lines a client sends at most
MaxHeaders == 2
\* the longest origin response is MaxRespChunks full relay buffers (+1 byte)
MaxRespChunks == 2
\* failing reads from the origin in one session
MaxReadErrs == 1

(***************************************************************************)
(* Program constants.                                                      *)
(***************************************************************************)
\* csapp.h: the size of every line buffer of proxy.c
MAXLINE == 8192
\* csapp.h: the size of clienterror's body buffer
MAXBUF == 8192

header_user_agent ==
    "Mozilla/5.0 (X11; Linux x86_64; rv:3.10.0) Gecko/20230411 Firefox/63.0.1"

\* the null pointer, where a const char * is modelled by a string
NULL == "(null)"

(***************************************************************************)
(* The C library calls proxy.c makes on strings.                           *)
(***************************************************************************)
Min(a, b) == IF a < b THEN a ELSE b

\* strncmp(a, b, n): 0 iff the strings agree on their first n characters,
\* the terminating NUL of a shorter string included.  Only zero / non-zero
\* is ever tested by proxy.c.
Strncmp(a, b, n) ==
    IF SubSeq(a, 1, Min(n, Len(a))) = SubSeq(b, 1, Min(n, Len(b))) THEN 0 ELSE 1

\* strncat(dest, src, n): dest followed by at most n characters of src.
\* strncat does not know the size of dest: the result may be longer than the
\* array that holds dest.
Strncat(dest, src, n) == dest \o SubSeq(src, 1, Min(n, Len(src)))

\* snprintf(buf, size, ...) of the formatted text: what is left in buf
Snprintf(size, text) == SubSeq(text, 1, Min(Len(text), size - 1))

(***************************************************************************)
(* rio_writen(fd, buf, n) on a stream: all n bytes are delivered and n is  *)
(* returned, or the call fails (-1): the peer has gone and nothing of buf   *)
(* is delivered.  A peer that has gone stays gone: once a write to a       *)
(* socket has failed, the later writes to it fail too.                     *)
(***************************************************************************)
WrOutcomes == IF env = "threads" THEN {"ok"} ELSE {"ok", "fail"}

RioWritenBytes(buf, outcome) == IF outcome = "ok" THEN buf ELSE ""

RioWritenRc(buf, outcome) == IF outcome = "ok" THEN Len(buf) ELSE -1

(***************************************************************************)
(* What a client may send, one line at a time.  A line is its raw text     *)
(* together with what the parser makes of it.                              *)
(***************************************************************************)
\* k copies of s
RECURSIVE Rep(_, _)
Rep(s, k) ==
    IF k = 0 THEN ""
    ELSE LET h == Rep(s, k \div 2)
         IN  IF k % 2 = 1 THEN h \o h \o s ELSE h \o h

Methods == {"GET", "POST"}
Versions == {"HTTP/1.0", "HTTP/1.1"}
Ports == {NULL, "8080"}

RequestLine(m, p, v) ==
    [kind |-> "request", method |-> m, host |-> "example.com", port |-> p,
     path |-> "/index.html",
     raw |-> m \o " http://example.com" \o (IF p = NULL THEN "" ELSE ":" \o p)
               \o "/index.html " \o v \o "\r\n"]

RequestLines == {RequestLine(m, p, v) : m \in Methods, p \in Ports, v \in Versions}

HeaderLine(n, v) ==
    [kind |-> "header", name |-> n, value |-> v, raw |-> n \o ": " \o v \o "\r\n"]

ClientAgent == "curl/8.0"

HeaderLines ==
    { HeaderLine("Host", "example.com"),
      HeaderLine("Accept", "*/*"),
      HeaderLine("User-agent", ClientAgent),
      HeaderLine("User-Agent", ClientAgent),
      HeaderLine("User-agent-Extra", "1") }

\* a header line of five eighths of MAXLINE: rio_readlineb reads lines of up
\* to MAXLINE - 1 bytes
LongHeader == HeaderLine("X-Long", Rep("x", (5 * MAXLINE) \div 8))

\* a line that is neither a request line nor a header line (it has no colon)
BadLine == [kind |-> "bad", raw |-> "garbage\r\n"]

BlankLine == [kind |-> "blank", raw |-> "\r\n"]

\* what rio_readlineb returns when it returns no line: 0 at the end of the
\* stream, -1 for a read error
ReadLineEnds == IF env = "threads" THEN {0} ELSE {0, -1}

\* whether a read from the origin may fail
OriginReadFails == env # "threads"

\* the lines a client may send first, and after the request line
FirstLines ==
    IF env \in {"relay", "threads", "long"}
    THEN {RequestLine("GET", NULL, "HTTP/1.1"), BadLine}
    ELSE RequestLines \cup {HeaderLine("Host", "example.com"), BadLine, BlankLine}

LaterLines ==
    CASE env \in {"relay", "threads"} -> {HeaderLine("Host", "example.com"), BlankLine}
      [] env = "long" -> {HeaderLine("Host", "example.com"), LongHeader, BlankLine}
      [] OTHER -> HeaderLines \cup {BadLine, BlankLine, RequestLine("GET", NULL, "HTTP/1.1")}

(***************************************************************************)
(* The parser of http_parser.h, from its contract: parser_parse_line       *)
(* classifies one line and keeps what it parsed; the headers are kept in   *)
(* the order received, with the name and value text as received.           *)
(***************************************************************************)
REQUEST == "REQUEST"
HEADER == "HEADER"
ERROR == "ERROR"

parser_new ==
    [alloc |-> "live", frees |-> 0, method |-> NULL, host |-> NULL,
     port |-> NULL, path |-> NULL, headers |-> <<>>, next |-> 1]

parser_state_of(line) ==
    CASE line.kind = "request" -> REQUEST
      [] line.kind = "header"  -> HEADER
      [] OTHER                 -> ERROR

parser_parse_line(p, line) ==
    CASE line.kind = "request" ->
            [p EXCEPT !.method = line.method, !.host = line.host,
                      !.port = line.port, !.path = line.path]
      [] line.kind = "header" ->
            [p EXCEPT !.headers = Append(@, [name |-> line.name, value |-> line.value])]
      [] OTHER -> p

parser_free(p) == [p EXCEPT !.alloc = "freed", !.frees = @ + 1]

(***************************************************************************)
(* clienterror (lines 84-127): the bytes the client has received after the *)
(* call, given what it had received before and how the two writes end.     *)
(***************************************************************************)
ErrorBody(errnum, shortmsg, longmsg) ==
    "<!DOCTYPE html>\r\n"
    \o "<html>\r\n"
    \o "<head><title>Tiny Error</title></head>\r\n"
    \o "<body bgcolor=\"ffffff\">\r\n"
    \o "<h1>" \o errnum \o ": " \o shortmsg \o "</h1>\r\n"
    \o "<p>" \o longmsg \o "</p>\r\n"
    \o "<hr /><em>The Tiny Web server</em>\r\n"
    \o "</body></html>\r\n"

ErrorHead(errnum, shortmsg, bodylen) ==
    "HTTP/1.0 " \o errnum \o " " \o shortmsg \o "\r\n"
    \o "Content-Type: text/html\r\n"
    \o "Content-Length: " \o ToString(bodylen) \o "\r\n\r\n"

\* the two writes of clienterror end "ok"; or the first fails; or the second
ClientErrorOutcomes ==
    IF env = "threads" THEN {<<"ok", "ok">>}
    ELSE {<<"ok", "ok">>, <<"fail", "ok">>, <<"ok", "fail">>}

clienterror(out, errnum, shortmsg, longmsg, wr) ==
    LET text    == ErrorBody(errnum, shortmsg, longmsg)
        bodylen == Len(text)
        body    == Snprintf(MAXBUF, text)
        head    == ErrorHead(errnum, shortmsg, bodylen)
        buflen  == Len(head)
        buf     == Snprintf(MAXLINE, head)
    IN  IF bodylen >= MAXBUF THEN out
        ELSE IF buflen >= MAXLINE THEN out
        ELSE IF RioWritenRc(buf, wr[1]) < 0 THEN out \o RioWritenBytes(buf, wr[1])
        ELSE out \o buf \o RioWritenBytes(body, wr[2])

\* whether a call of clienterror ending as wr met a write error
ClientErrorFailed(wr) == wr[1] # "ok" \/ wr[2] # "ok"

\* the results a write to the client can have: none but failure once the
\* client has gone
WriteAllowed(gone, w) == gone => w = "fail"

ClientErrorAllowed(gone, wr) == gone => wr = <<"fail", "ok">>

(***************************************************************************)
(* size_t values are kept as their residue modulo 2^64 nearest to zero:    *)
(* -1 stands for SIZE_MAX.  headers_parsed (line 198) is read without      *)
(* having been initialised: its first value is any of these.               *)
(***************************************************************************)
Uninitialised == {0, 1, -1}

\* the unsigned comparison x < 1 of line 217
SizeLessThanOne(x) == x = 0

\* the unsigned comparison x > 0 of line 254-255
SizeGreaterThanZero(x) == x # 0

(***************************************************************************)
(* The origin's responses: prefixes of one stream, of lengths around the   *)
(* multiples of the relay buffer.                                          *)
(***************************************************************************)
Hello == "HTTP/1.0 200 OK\r\nContent-Length: 5\r\n\r\nhello"

Response(n) == SubSeq(Hello \o Rep("abcdefg", n \div 7 + 1), 1, n)

ResponseLengths ==
    {0, Len(Hello)}
    \cup {k * MAXLINE + d : k \in 1..MaxRespChunks, d \in {-1, 0, 1}}

Responses ==
    {Response(n) : n \in CASE env = "relay"   -> ResponseLengths
                          [] env \in {"threads", "long"} -> {Len(Hello)}
                          [] OTHER           -> {0, Len(Hello)}}

\* what lies in memory behind server_response (line 252), read by a write of
\* more than MAXLINE bytes
StackGarbage == "<stack>"

(***************************************************************************)
(* The session thread's state when pthread_create starts it (line 303):    *)
(* vargp is the client_info main allocated, connfd the accepted socket.    *)
(***************************************************************************)
NewSession ==
    [pc |-> "start",          \* where serve is
     ret |-> 0,               \* the line of the return statement taken
     vargp |-> 0,             \* the argument of serve: the address of a client_info
     conn |-> 0,              \* the connection accept returned when the thread was created
     fd |-> 0,                \* the value of client->connfd the thread used last
     ranAfter |-> 0,          \* how many threads main had created when this one
                              \* first ran
     sigmask |-> {},          \* the signals the thread blocks
     sigpipes |-> 0,          \* SIGPIPE signals its writes have raised
     connfd |-> "open",       \* the client socket
     clientfd |-> "none",     \* the origin socket: none, open or closed
     parser |-> [parser_new EXCEPT !.alloc = "none"],
     method |-> NULL, path |-> NULL, port |-> NULL, host |-> NULL,
     request |-> "",          \* char request[MAXLINE]
     headers_parsed |-> 0,    \* uninitialised: its value is drawn where it is first read
     server_response |-> "",  \* char server_response[MAXLINE]
     response_size |-> 0,
     \* the environment and the history of the session
     target |-> <<>>,         \* the arguments of open_clientfd
     originResp |-> "",       \* what the origin sends
     rpos |-> 0,              \* how much of it has been read
     rderrs |-> 0,            \* failed reads from the origin
     clientOut |-> "",        \* bytes delivered to the client
     relayed |-> "",          \* those of them the relay loop wrote
     originIn |-> "",         \* bytes delivered to the origin
     clientGone |-> FALSE,    \* a write to the client has failed
     ioErr |-> FALSE,         \* a read or write has failed
     relayErr |-> FALSE,      \* a read or write of the relay loop has failed
     errAt |-> 0,             \* the place in log of the first call that failed
                              \* once forwarding had begun, or 0
     log |-> <<>>]            \* the calls made, in order

Sessions == 1..Len(sess)

\* the identities a session thread can have
ThreadIds == 1..2

(***************************************************************************)
(* main, lines 273-288: the signal mask and the listening socket.          *)
(***************************************************************************)
\* lines 275-277: no signal is blocked (what main would do without them)
NoSignals == {}

\* lines 275-277: the set sigprocmask(SIG_BLOCK, ...) is given
BlockedSignals == {"SIGPIPE"}

MainSetup ==
    /\ proc.alive
    /\ proc.pc = "setup"
    /\ proc' = [proc EXCEPT !.pc = "loop", !.blocked = @ \cup BlockedSignals]
    /\ UNCHANGED <<sess, backlog, env, heap>>

(***************************************************************************)
(* main, lines 291-304: one iteration of the accept loop.                  *)
(***************************************************************************)
\* main with serve called in the loop: the next iteration waits for it
MainResumesAfterServe(ss) == \A k \in DOMAIN ss : ss[k].pc = "done"

\* line 303: pthread_create returns once the thread exists; main goes on to
\* the next iteration whatever the threads it created are doing
MainResumes(ss) == TRUE

\* one client_info for all iterations: the address of the first
MallocSame(h) == 1

\* line 292: Malloc returns the address of a new record.  An address stands
\* for one allocation: a record that was freed keeps its place in the heap.
Malloc(h) == Len(h) + 1

\* the heap after the record at address p has been written
Store(h, p, rec) == IF p > Len(h) THEN Append(h, rec) ELSE [h EXCEPT ![p] = rec]

\* the connections still to arrive are numbered backlog, ..., 1
NextConnection == backlog

\* lines 292-303: accept returns a connection and its thread is created;
\* the thread inherits the signal mask of main
Accept ==
    /\ proc.alive
    /\ proc.pc = "loop"
    /\ MainResumes(sess)
    /\ backlog > 0
    /\ backlog' = backlog - 1
    /\ LET client == Malloc(heap)
       IN  /\ heap' = Store(heap, client,
                            [connfd |-> NextConnection, alloc |-> "live", frees |-> 0])
           /\ sess' = Append(sess, [NewSession EXCEPT !.vargp = client,
                                                      !.conn = NextConnection,
                                                      !.sigmask = proc.blocked])
    /\ UNCHANGED <<env, proc>>

\* lines 292-300: accept fails (the connection was aborted): no thread is
\* created, and the record of this iteration is not freed
AcceptFails ==
    /\ proc.alive
    /\ proc.pc = "loop"
    /\ MainResumes(sess)
    /\ backlog > 0
    /\ backlog' = backlog - 1
    /\ heap' = Store(heap, Malloc(heap), [connfd |-> -1, alloc |-> "live", frees |-> 0])
    /\ UNCHANGED <<sess, env, proc>>

(***************************************************************************)
(* What every step of a session thread leaves alone.  A write to a peer    *)
(* that has gone raises SIGPIPE for the writing thread: the signal stays   *)
(* pending if the thread blocks it, and ends the process if not.  A thread *)
(* that crashes ends the process.                                          *)
(***************************************************************************)
\* client->connfd, read through the pointer serve was given (line 138)
ConnfdOf(s) == heap[s.vargp].connfd

ThreadStep(i) ==
    /\ UNCHANGED <<backlog, env>>
    /\ proc' = IF \/ sess'[i].sigpipes > sess[i].sigpipes /\ "SIGPIPE" \notin sess[i].sigmask
                  \/ sess'[i].pc = "crashed"
               THEN [proc EXCEPT !.alive = FALSE]
               ELSE proc

(***************************************************************************)
(* serve, lines 143-179: the request line.                                 *)
(***************************************************************************)
\* line 170: the method test
IsGet(method) == Strncmp(method, "GET", 3) = 0

\* lines 177-179 left out: the port as the parser gave it
PortAsParsed(port) == port

\* lines 177-179
DefaultPort(port) == IF port = NULL THEN "80" ELSE port

\* a call of clienterror by session record s
CallClientError(s, errnum, shortmsg, longmsg, wr) ==
    [s EXCEPT !.clientOut = clienterror(@, errnum, shortmsg, longmsg, wr),
              !.fd = ConnfdOf(s),
              !.ioErr = @ \/ ClientErrorFailed(wr),
              !.clientGone = @ \/ ClientErrorFailed(wr),
              !.sigpipes = IF ClientErrorFailed(wr) THEN @ + 1 ELSE @,
              !.log = Append(@, "clienterror " \o errnum)]

BadRequest(s, wr) ==
    CallClientError(s, "400", "Bad Request", "Proxy received a malformed request", wr)

NotImplemented(s, wr) ==
    CallClientError(s, "501", "Not Implemented",
                    "Proxy does not implement this method", wr)

ServiceUnavailable(s, wr) ==
    CallClientError(s, "503", "Service Unavailable", "Failed to connect to server", wr)

Return(s, line) == [s EXCEPT !.pc = "done", !.ret = line]

ServeReadRequest(i) ==
    LET s == [sess[i] EXCEPT !.parser = parser_new,
                             !.ranAfter = Len(sess),
                             !.fd = ConnfdOf(sess[i]),
                             !.log = Append(@, "rio_readlineb")]
    IN
    /\ i \in Sessions
    /\ proc.alive
    /\ sess[i].pc = "start"
    /\ \/ \* lines 149-152: end of file (0) or a read error (-1)
          \E rc \in ReadLineEnds :
             sess' = [sess EXCEPT ![i] =
                         Return([s EXCEPT !.ioErr = rc < 0], 151)]
       \/ \* lines 154-162: a line that is no request line
          \E line \in FirstLines, wr \in ClientErrorOutcomes :
             /\ parser_state_of(line) # REQUEST
             /\ sess' = [sess EXCEPT ![i] =
                   Return(BadRequest(
                       [s EXCEPT !.parser = parser_free(parser_parse_line(@, line))],
                       wr), 161)]
       \/ \* lines 164-179: a request line
          \E line \in FirstLines, wr \in ClientErrorOutcomes :
             /\ parser_state_of(line) = REQUEST
             /\ LET p  == parser_parse_line(s.parser, line)
                    s1 == [s EXCEPT !.parser = p, !.method = p.method,
                                    !.path = p.path, !.host = p.host,
                                    !.port = DefaultPort(p.port),
                                    !.pc = "headers"]
                IN  sess' = [sess EXCEPT ![i] =
                       IF IsGet(p.method) THEN s1 ELSE NotImplemented(s1, wr)]
    /\ ThreadStep(i)
    /\ UNCHANGED heap

(***************************************************************************)
(* serve, lines 182-192: one iteration of the loop that reads the headers. *)
(***************************************************************************)
\* line 182: the loop goes on while rio_readlineb returns more than 2
LineGoesOn(n) == n > 2

ServeReadHeader(i) ==
    LET s == [sess[i] EXCEPT !.fd = ConnfdOf(sess[i]),
                             !.log = Append(@, "rio_readlineb")]
    IN
    /\ i \in Sessions
    /\ proc.alive
    /\ sess[i].pc = "headers"
    /\ \/ \* a line: of at most 2 bytes (the loop ends), or parsed
          \E line \in LaterLines, wr \in ClientErrorOutcomes :
             /\ ClientErrorAllowed(s.clientGone, wr)
             /\ Len(s.parser.headers) < MaxHeaders \/ line.kind # "header"
             /\ LET p == parser_parse_line(s.parser, line)
                IN  sess' = [sess EXCEPT ![i] =
                       IF ~LineGoesOn(Len(line.raw))
                       THEN [s EXCEPT !.pc = "build", !.log = Append(@, "blank")]
                       ELSE IF parser_state_of(line) # HEADER
                       THEN Return(BadRequest(
                               [s EXCEPT !.parser = parser_free(p)], wr), 190)
                       ELSE [s EXCEPT !.parser = p]]
       \/ \* end of file (0) or a read error (-1): the loop ends
          \E rc \in ReadLineEnds :
             /\ ~LineGoesOn(rc)
             /\ sess' = [sess EXCEPT ![i] =
                   [s EXCEPT !.pc = "build", !.ioErr = @ \/ rc < 0,
                             !.log = Append(@, IF rc = 0 THEN "eof" ELSE "error")]]
    /\ ThreadStep(i)
    /\ UNCHANGED heap


(***************************************************************************)
(* serve, lines 195-229: the outbound request.                             *)
(***************************************************************************)
\* line 195 with the version of the client's request line kept
RequestStartHttp11(path) == Snprintf(MAXLINE, "GET " \o path \o " HTTP/1.1\r\n")

\* line 195
RequestStart(path) == Snprintf(MAXLINE, "GET " \o path \o " HTTP/1.0\r\n")

\* line 204: a header is copied unless strncmp finds "User-agent" at its start
ForwardsHeader(name) == Strncmp("User-agent", name, 10) # 0

\* lines 205-209
HeaderText(h) ==
    Strncat(Strncat(Strncat(Strncat("", h.name, MAXLINE), ": ", MAXLINE),
                    h.value, MAXLINE), "\r\n", MAXLINE)

\* lines 202-215: the loop over parser_retrieve_next_header
RECURSIVE AppendHeaders(_, _)
AppendHeaders(request, headers) ==
    IF headers = <<>> THEN request
    ELSE AppendHeaders(
            IF ForwardsHeader(Head(headers).name)
            THEN Strncat(request, HeaderText(Head(headers)), MAXLINE)
            ELSE request,
            Tail(headers))

\* lines 226-229 left out: the request as the header loop left it
AppendNothing(request) == request

\* lines 226-229
AppendUserAgent(request) ==
    Strncat(Strncat(Strncat(Strncat(request, "User-Agent: ", MAXLINE),
                            header_user_agent, MAXLINE), "\r\n", MAXLINE),
            "\r\n", MAXLINE)

\* line 217, on headers_parsed after the loop has counted n headers from g
TooFewHeaders(g, n) == SizeLessThanOne(g + n)

\* line 181: whether a string and its terminating NUL fit in char[MAXLINE]
Fits(text) == Len(text) + 1 <= MAXLINE

\* lines 211, 226-229: strncat writes the whole string whatever the size of
\* request.  What does not fit is written behind the array: the bytes land
\* in the neighbouring stack memory and serve goes on, or the process is
\* ended (the stack protector, a fault).
OverflowOutcomes(text) == IF Fits(text) THEN {"fits"} ELSE {"clobber", "crash"}

ServeBuildRequest(i) ==
    LET s == sess[i]
        headers == s.parser.headers
        request == AppendHeaders(RequestStart(s.path), headers)
    IN
    /\ i \in Sessions
    /\ proc.alive
    /\ sess[i].pc = "build"
    /\ \E g \in Uninitialised, wr \in ClientErrorOutcomes :
          \* headers_parsed starts as g and is incremented once per header
          /\ ClientErrorAllowed(s.clientGone, wr)
          /\ LET s1 == [s EXCEPT !.request = request,
                                 !.headers_parsed = g + Len(headers),
                                 !.parser.next = Len(headers) + 1]
                 built == IF TooFewHeaders(g, Len(headers))
                          THEN request ELSE AppendUserAgent(request)
             IN  \E o \in OverflowOutcomes(built) :
                    sess' = [sess EXCEPT ![i] =
                       IF o = "crash"
                       THEN [s1 EXCEPT !.request = built, !.pc = "crashed"]
                       ELSE IF TooFewHeaders(g, Len(headers))
                       THEN Return(BadRequest(
                               [s1 EXCEPT !.parser = parser_free(@)], wr), 222)
                       ELSE [s1 EXCEPT !.request = AppendUserAgent(@),
                                       !.pc = "connect"]]
    /\ ThreadStep(i)
    /\ UNCHANGED heap

(***************************************************************************)
(* serve, lines 232-241: the origin connection and the outbound request.   *)
(***************************************************************************)
ServeConnect(i) ==
    LET s == [sess[i] EXCEPT !.target = <<sess[i].host, sess[i].port>>,
                             !.log = Append(@, "open_clientfd")]
    IN
    /\ i \in Sessions
    /\ proc.alive
    /\ sess[i].pc = "connect"
    /\ \/ \* open_clientfd returns a descriptor
          \E resp \in Responses :
             sess' = [sess EXCEPT ![i] =
                [s EXCEPT !.clientfd = "open", !.originResp = resp, !.pc = "send"]]
       \/ \* lines 234-239: open_clientfd fails
          \E wr \in ClientErrorOutcomes :
             /\ ClientErrorAllowed(s.clientGone, wr)
             /\ sess' = [sess EXCEPT ![i] =
                   Return([ServiceUnavailable(s, wr) EXCEPT !.parser = parser_free(@)],
                          238)]
    /\ ThreadStep(i)
    /\ UNCHANGED heap

\* line 241: the result of rio_writen is not looked at
ServeSendRequest(i) ==
    LET s == sess[i] IN
    /\ i \in Sessions
    /\ proc.alive
    /\ sess[i].pc = "send"
    /\ \E w \in WrOutcomes :
          sess' = [sess EXCEPT ![i] =
             [s EXCEPT !.originIn = @ \o RioWritenBytes(s.request, w),
                       !.ioErr = @ \/ RioWritenRc(s.request, w) < 0,
                       !.sigpipes = IF w = "ok" THEN @ ELSE @ + 1,
                       !.errAt = IF w = "ok" THEN @ ELSE Len(s.log) + 1,
                       !.log = Append(@, "rio_writen origin"),
                       !.pc = "relay"]]
    /\ ThreadStep(i)
    /\ UNCHANGED heap

(***************************************************************************)
(* serve, lines 252-257: the relay loop, a read and a write at a time.     *)
(***************************************************************************)
\* rio_readnb(rp, buf, n) with `left` bytes to come before the end of the
\* stream: n bytes, or the fewer that are left
RioReadnb(left, n) == Min(left, n)

\* line 254: the buffer after a read of chunk into it
BufferAfterRead(buf, chunk) == chunk \o SubSeq(buf, Len(chunk) + 1, Len(buf))

ServeRelayRead(i) ==
    LET s == [sess[i] EXCEPT !.log = Append(@, "rio_readnb")]
    IN
    /\ i \in Sessions
    /\ proc.alive
    /\ sess[i].pc = "relay"
    /\ \/ \* the read returns n >= 0: the next n bytes of the response
          LET n     == RioReadnb(Len(s.originResp) - s.rpos, MAXLINE)
              chunk == SubSeq(s.originResp, s.rpos + 1, s.rpos + n)
          IN  sess' = [sess EXCEPT ![i] =
                 [s EXCEPT !.server_response = BufferAfterRead(@, chunk),
                           !.response_size = n,
                           !.rpos = @ + n,
                           !.pc = IF SizeGreaterThanZero(n) THEN "write" ELSE "close"]]
       \/ \* the read fails: -1 is stored in the size_t response_size
          /\ OriginReadFails
          /\ s.rderrs < MaxReadErrs
          /\ sess' = [sess EXCEPT ![i] =
                [s EXCEPT !.response_size = -1,
                          !.rderrs = @ + 1,
                          !.errAt = IF @ = 0 THEN Len(s.log) ELSE @,
                          !.ioErr = TRUE,
                          !.relayErr = TRUE,
                          !.pc = IF SizeGreaterThanZero(-1) THEN "write" ELSE "close"]]
    /\ ThreadStep(i)
    /\ UNCHANGED heap

\* the relay loop writing the whole buffer, whatever the read returned
RelayPayloadWholeBuffer(buf, size) == buf

\* line 256: the bytes rio_writen is asked to write
RelayPayload(buf, size) ==
    IF size < 0 \/ size > MAXLINE
    THEN buf \o StackGarbage      \* SIZE_MAX bytes: the buffer and what follows it
    ELSE SubSeq(buf, 1, size)

ServeRelayWrite(i) ==
    LET s == sess[i]
        payload == RelayPayload(s.server_response, s.response_size)
    IN
    /\ i \in Sessions
    /\ proc.alive
    /\ sess[i].pc = "write"
    /\ \E w \in WrOutcomes :
          \* a write of SIZE_MAX bytes reads past the buffer and cannot
          \* complete: it fails after the peer took what could be read ("ok")
          \* or took nothing
          /\ WriteAllowed(s.clientGone, w)
          /\ LET oversize == s.response_size < 0
                 sent     == RioWritenBytes(payload, w)
                 failed   == oversize \/ RioWritenRc(payload, w) < 0
             IN  sess' = [sess EXCEPT ![i] =
                    [s EXCEPT !.clientOut = @ \o sent,
                              !.relayed = @ \o sent,
                              !.fd = ConnfdOf(s),
                              !.sigpipes = IF w = "ok" THEN @ ELSE @ + 1,
                              !.ioErr = @ \/ failed,
                              !.relayErr = @ \/ failed,
                              !.clientGone = @ \/ w # "ok",
                              !.errAt = IF @ = 0 /\ failed THEN Len(s.log) + 1 ELSE @,
                              !.log = Append(@, "rio_writen client"),
                              !.pc = "relay"]]
    /\ ThreadStep(i)
    /\ UNCHANGED heap

(***************************************************************************)
(* serve, lines 259-262.                                                   *)
(***************************************************************************)
\* line 260: Free of a record
Free(rec) == [rec EXCEPT !.alloc = "freed", !.frees = @ + 1]

ServeClose(i) ==
    LET s == sess[i] IN
    /\ i \in Sessions
    /\ proc.alive
    /\ sess[i].pc = "close"
    /\ sess' = [sess EXCEPT ![i] =
          Return([s EXCEPT !.connfd = "closed",
                           !.fd = ConnfdOf(s),
                           !.parser = parser_free(@),
                           !.log = Append(@, "close client")], 262)]
    /\ heap' = [heap EXCEPT ![s.vargp] = Free(@)]
    /\ ThreadStep(i)

(***************************************************************************)
(* A peer that stops: the client sends nothing more, or does not read; the *)
(* origin does not answer, or does not close.  The thread stays in the     *)
(* call it is in (rio_readlineb, open_clientfd, rio_writen, rio_readnb).   *)
(***************************************************************************)
BlockingCalls == {"start", "headers", "connect", "send", "relay", "write"}

\* the calls in which the peers of a scenario stall
StallingCalls == IF env = "threads" THEN BlockingCalls ELSE {"start"}

PeerStalls(i) ==
    /\ i \in Sessions
    /\ proc.alive
    /\ sess[i].pc \in StallingCalls
    /\ sess' = [sess EXCEPT ![i].pc = "blocked"]
    /\ UNCHANGED <<backlog, env, heap, proc>>

(***************************************************************************)
(* The specifications.  Under Spec and SpecRelay one connection arrives:   *)
(* Spec draws the client's lines from every kind of line and the origin's  *)
(* response from the short ones; SpecRelay draws the response from every   *)
(* length and the client's lines from a few; a peer stalls only before the *)
(* first line.  Under SpecLong one connection arrives whose headers may be *)
(* long.  Under SpecThreads as many connections arrive as there are thread *)
(* identities, and their threads run side by side on few inputs, with no   *)
(* failing read or write; a peer may stall in any call; main and every     *)
(* thread get their turn, and a call on a peer that has not stalled        *)
(* returns.                                                                *)
(***************************************************************************)
ProcessStart == [pc |-> "setup", blocked |-> NoSignals, alive |-> TRUE]

Init ==
    /\ sess = <<>>
    /\ backlog = 1
    /\ env = "request"
    /\ heap = <<>>
    /\ proc = ProcessStart

InitRelay ==
    /\ sess = <<>>
    /\ backlog = 1
    /\ env = "relay"
    /\ heap = <<>>
    /\ proc = ProcessStart

InitLong ==
    /\ sess = <<>>
    /\ backlog = 1
    /\ env = "long"
    /\ heap = <<>>
    /\ proc = ProcessStart

InitThreads ==
    /\ sess = <<>>
    /\ backlog = Cardinality(ThreadIds)
    /\ env = "threads"
    /\ heap = <<>>
    /\ proc = ProcessStart

Serve(i) ==
    \/ ServeReadRequest(i)
    \/ ServeReadHeader(i)
    \/ ServeBuildRequest(i)
    \/ ServeConnect(i)
    \/ ServeSendRequest(i)
    \/ ServeRelayRead(i)
    \/ ServeRelayWrite(i)
    \/ ServeClose(i)

Next ==
    \/ MainSetup
    \/ Accept
    \/ AcceptFails
    \/ \E i \in ThreadIds : Serve(i)
    \/ \E i \in ThreadIds : PeerStalls(i)

Spec == Init /\ [][Next]_vars

SpecRelay == InitRelay /\ [][Next]_vars

SpecLong == InitLong /\ [][Next]_vars

\* the scheduler runs main and every thread; a call whose peer answers returns
Fairness ==
    /\ WF_vars(MainSetup)
    /\ WF_vars(Accept \/ AcceptFails)
    /\ \A i \in ThreadIds : WF_vars(Serve(i))

SpecThreads == InitThreads /\ [][Next]_vars /\ Fairness


(***************************************************************************)
(* Reading a byte stream back: its lines, and the name and value of a      *)
(* header line.                                                            *)
(***************************************************************************)
\* the place of the first CRLF of text at or after k, or 0
RECURSIVE FindCrlf(_, _)
FindCrlf(text, k) ==
    IF k + 1 > Len(text) THEN 0
    ELSE IF SubSeq(text, k, k + 1) = "\r\n" THEN k
    ELSE FindCrlf(text, k + 1)

RECURSIVE LinesOf(_)
LinesOf(text) ==
    IF text = "" THEN <<>>
    ELSE LET k == FindCrlf(text, 1)
         IN  IF k = 0 THEN <<text>>
             ELSE <<SubSeq(text, 1, k - 1)>> \o LinesOf(SubSeq(text, k + 2, Len(text)))

RECURSIVE FindColon(_, _)
FindColon(text, k) ==
    IF k > Len(text) THEN 0
    ELSE IF SubSeq(text, k, k) = ":" THEN k
    ELSE FindColon(text, k + 1)

NameOf(line) ==
    LET k == FindColon(line, 1) IN IF k = 0 THEN line ELSE SubSeq(line, 1, k - 1)

ValueOf(line) ==
    LET k == FindColon(line, 1) IN IF k = 0 THEN "" ELSE SubSeq(line, k + 2, Len(line))

UpperLetters == "ABCDEFGHIJKLMNOPQRSTUVWXYZ"
LowerLetters == "abcdefghijklmnopqrstuvwxyz"

LowerChar(c) ==
    IF \E k \in 1..26 : SubSeq(UpperLetters, k, k) = c
    THEN LET k == CHOOSE j \in 1..26 : SubSeq(UpperLetters, j, j) = c
         IN  SubSeq(LowerLetters, k, k)
    ELSE c

RECURSIVE LowerCase(_)
LowerCase(text) ==
    IF text = "" THEN ""
    ELSE LowerChar(SubSeq(text, 1, 1)) \o LowerCase(SubSeq(text, 2, Len(text)))

\* a header name that is a case variant of "User-Agent"
IsUserAgent(name) == LowerCase(name) = "user-agent"

HasPrefix(text, p) == SubSeq(text, 1, Min(Len(p), Len(text))) = p

HasSuffix(text, p) ==
    Len(p) <= Len(text) /\ SubSeq(text, Len(text) - Len(p) + 1, Len(text)) = p

\* the synthesized error response as the client is to receive it
ErrorPage(errnum, shortmsg, longmsg) ==
    LET body == ErrorBody(errnum, shortmsg, longmsg)
    IN  ErrorHead(errnum, shortmsg, Len(body)) \o body

Page400 == ErrorPage("400", "Bad Request", "Proxy received a malformed request")
Page501 == ErrorPage("501", "Not Implemented", "Proxy does not implement this method")
Page503 == ErrorPage("503", "Service Unavailable", "Failed to connect to server")

\* the calls of a session, from its log
Called(s, call) == \E k \in DOMAIN s.log : s.log[k] = call

Count(s, call) == Cardinality({k \in DOMAIN s.log : s.log[k] = call})

IsClientError(call) == HasPrefix(call, "clienterror ")

\* the header lines of the request the origin received
SentHeaders(s) ==
    LET ls == LinesOf(s.originIn)
    IN  SelectSeq(SubSeq(ls, 2, Len(ls)), LAMBDA l : l # "")

\* the header lines the client sent, as text
ReceivedHeaders(s) ==
    [k \in DOMAIN s.parser.headers |->
        s.parser.headers[k].name \o ": " \o s.parser.headers[k].value]

(***************************************************************************)
(* The claims.                                                             *)
(***************************************************************************)

\* C1: a session whose request line has a method other than GET answers 501,
\* never calls open_clientfd and never writes a byte to an origin.
C1_NonGetIsRejected ==
    \A i \in Sessions :
        LET s == sess[i] IN
        (s.method # NULL /\ s.method # "GET") =>
            /\ ~s.ioErr => HasPrefix(s.clientOut, Page501)
            /\ ~Called(s, "open_clientfd")
            /\ s.originIn = ""

\* C2: when serve has returned, by whatever return statement, the client
\* socket is closed and so is the origin socket if one was opened.
C2_NoOpenDescriptorAtReturn ==
    \A i \in Sessions :
        LET s == sess[i] IN
        s.pc = "done" => s.connfd = "closed" /\ s.clientfd \in {"none", "closed"}

\* C3: when open_clientfd fails the session sends exactly one 503, calls
\* open_clientfd once only, and has closed the client socket when it ends.
C3_ConnectFailureAnswered ==
    \A i \in Sessions :
        LET s == sess[i] IN
        (s.pc = "done" /\ s.ret = 238) =>
            /\ Count(s, "clienterror 503") = 1
            /\ Count(s, "open_clientfd") = 1
            /\ ~s.ioErr => HasSuffix(s.clientOut, Page503)
            /\ s.connfd = "closed"

\* C4: a session that ends before relaying because its request was malformed,
\* incomplete or of an unsupported method has written a complete error
\* response to the client (no write having failed): never zero bytes.
C4_ErrorPageBeforeEnd ==
    \A i \in Sessions :
        LET s == sess[i] IN
        (/\ s.pc = "done"
         /\ s.clientfd = "none"
         /\ s.ret \in {151, 161, 190, 222} \/ s.method \notin {NULL, "GET"}
         /\ ~s.ioErr) =>
            /\ s.clientOut # ""
            /\ \E page \in {Page400, Page501, Page503} : HasSuffix(s.clientOut, page)

\* C5: once a session has sent an error response it is closed: the call of
\* clienterror is the last call it makes, and nothing is relayed, so the
\* client receives at most one response.
C5_ErrorPageIsLast ==
    \A i \in Sessions :
        LET s == sess[i] IN
        \A k \in DOMAIN s.log :
            IsClientError(s.log[k]) =>
                /\ k = Len(s.log)
                /\ s.pc = "done"
                /\ s.relayed = ""

\* C6: if the client sent a header whose name is a case variant of
\* "User-Agent", the request the origin receives has exactly one User-Agent
\* header line, and its value is header_user_agent.
C6_OneProxyUserAgent ==
    \A i \in Sessions :
        LET s == sess[i] IN
        (/\ s.originIn # ""
         /\ Called(s, "blank")
         /\ \E k \in DOMAIN s.parser.headers : IsUserAgent(s.parser.headers[k].name)) =>
            LET ua == SelectSeq(SentHeaders(s), LAMBDA l : IsUserAgent(NameOf(l)))
            IN  Len(ua) = 1 /\ ValueOf(ua[1]) = header_user_agent

\* C7: every received header whose name is no case variant of "User-Agent"
\* is in the request the origin receives, in the order received and with
\* its name and value unchanged.
C7_OtherHeadersForwarded ==
    \A i \in Sessions :
        LET s == sess[i] IN
        (s.originIn # "" /\ Called(s, "blank")) =>
            SelectSeq(ReceivedHeaders(s), LAMBDA l : ~IsUserAgent(NameOf(l)))
              = SelectSeq(SentHeaders(s), LAMBDA l : ~IsUserAgent(NameOf(l)))

\* C8: a well-formed GET request that leaves no header to forward (no header
\* line, or User-Agent headers only) is not rejected: no 400 is sent for it.
C8_NoHeaderIsAccepted ==
    \A i \in Sessions :
        LET s == sess[i] IN
        (/\ s.method = "GET"
         /\ Called(s, "blank")
         /\ \A k \in DOMAIN s.parser.headers : IsUserAgent(s.parser.headers[k].name)
         /\ s.pc \notin {"start", "headers", "build"}) =>
            /\ ~Called(s, "clienterror 400")
            /\ s.ret # 222

\* C9: if the client's stream ends (end of file or read error) before the
\* blank line that ends the headers, the session opens no origin connection
\* and forwards nothing.
C9_EndOfStreamIsMalformed ==
    \A i \in Sessions :
        LET s == sess[i] IN
        (Called(s, "eof") \/ Called(s, "error")) =>
            /\ ~Called(s, "open_clientfd")
            /\ s.originIn = ""

\* C10: when no read or write of the relay loop has failed, the bytes the
\* loop has written to the client are the bytes read from the origin so far,
\* in order, and when the loop has ended they are the whole response of the
\* origin, whatever its length.
C10_RelayIsExact ==
    \A i \in Sessions :
        LET s == sess[i] IN
        ~s.relayErr =>
            /\ s.pc \in {"relay", "close"} => s.relayed = SubSeq(s.originResp, 1, s.rpos)
            /\ s.pc = "write" =>
                  s.relayed = SubSeq(s.originResp, 1, s.rpos - s.response_size)
            /\ (s.pc = "close" \/ s.ret = 262) => s.relayed = s.originResp

\* a response longer than the relay buffer has been relayed in several
\* read/write cycles without an error
C10_Witness ==
    \E i \in Sessions :
        LET s == sess[i] IN
        /\ s.ret = 262
        /\ ~s.relayErr
        /\ Len(s.originResp) > MAXLINE
        /\ Count(s, "rio_writen client") >= 2
        /\ s.relayed = s.originResp

\* the calls that read or write a socket
IoCalls == {"rio_readlineb", "rio_readnb", "rio_writen origin", "rio_writen client"}

\* C11: after the first read or write that fails once forwarding has begun
\* (the write of the request to the origin, a read from the origin, a write
\* to the client), the session makes no further read or write on either
\* socket, and it has written to the client at most the bytes it read.
C11_ErrorEndsForwarding ==
    \A i \in Sessions :
        LET s == sess[i] IN
        s.errAt # 0 =>
            /\ \A k \in DOMAIN s.log : k > s.errAt => s.log[k] \notin IoCalls
            /\ Len(s.relayed) <= s.rpos

\* the calls that forward: the write to the origin and the relay loop
ForwardingCalls == {"rio_writen origin", "rio_readnb", "rio_writen client"}

\* the step of serve a call belongs to: reading the lines, connecting,
\* forwarding; 0 for the other entries of a log
StepOf(call) ==
    CASE call = "rio_readlineb"   -> 1
      [] call = "open_clientfd"   -> 2
      [] call \in ForwardingCalls -> 3
      [] OTHER                    -> 0

\* the calls of a log are made step after step
StepsAscend(log) ==
    LET steps == SelectSeq(log, LAMBDA c : StepOf(c) # 0)
    IN  \A k \in 1..(Len(steps) - 1) : StepOf(steps[k]) <= StepOf(steps[k + 1])

\* C12: in a session every line is read and classified before the outbound
\* request is built, the request is complete (its last header and the blank
\* line are in it) before open_clientfd is called, and open_clientfd has
\* returned a descriptor before a byte goes to the origin or is relayed.
C12_StepsInOrder ==
    \A i \in Sessions :
        LET s == sess[i] IN
        /\ s.request # "" => /\ s.pc \notin {"start", "headers", "build"}
                              /\ s.parser.next = Len(s.parser.headers) + 1
        /\ StepsAscend(s.log)
        /\ Called(s, "open_clientfd") =>
              /\ HasPrefix(s.request, "GET " \o s.path)
              /\ HasSuffix(s.request, header_user_agent \o "\r\n\r\n")
        /\ (\/ s.originIn # ""
            \/ s.relayed # ""
            \/ \E k \in DOMAIN s.log : s.log[k] \in ForwardingCalls) =>
              Called(s, "open_clientfd") /\ s.clientfd = "open"

\* a session has read its lines, built the request, connected, sent the
\* request and relayed a response
C12_Witness ==
    \E i \in Sessions :
        LET s == sess[i] IN
        /\ s.ret = 262
        /\ Len(s.parser.headers) >= 1
        /\ s.originIn = s.request
        /\ s.relayed # ""

\* a session whose peer has stalled: its thread never leaves the call
Blocked(s) == s.pc = "blocked"

\* C13: whatever sessions are blocked for ever, main accepts every
\* connection that arrives and creates its thread, and every session whose
\* peers do not stall runs to its return.
C13_BlockedSessionStallsItselfOnly ==
    <>[](/\ backlog = 0
         /\ \A i \in Sessions : Blocked(sess[i]) \/ sess[i].pc = "done")

\* the first session is blocked in its first read, and a connection accepted
\* as well has been served to the end
C13_Witness ==
    /\ Len(sess) = 2
    /\ Blocked(sess[1])
    /\ sess[1].log = <<>>
    /\ sess[2].ret = 262
    /\ sess[2].relayed = sess[2].originResp

\* the connections accept has returned
Accepted == {heap[p].connfd : p \in {q \in DOMAIN heap : heap[q].connfd > 0}}

\* C14: the sessions share nothing.  Every thread has a client_info record
\* of its own, which always holds the descriptor of the connection the thread
\* was created for, whatever main has accepted since; the descriptor a thread
\* uses is that one; and every accepted connection has exactly one thread.
C14_SessionsShareNothing ==
    /\ \A i, j \in Sessions :
          i # j => sess[i].vargp # sess[j].vargp /\ sess[i].conn # sess[j].conn
    /\ \A i \in Sessions :
          LET s == sess[i] IN
          /\ s.vargp \in DOMAIN heap
          /\ ConnfdOf(s) = s.conn
          /\ s.fd \in {0, s.conn}
    /\ Accepted = {sess[i].conn : i \in Sessions}
    /\ Cardinality(Accepted) = Len(sess)

\* the first thread ran only after main had accepted the second connection,
\* and both sessions were served to the end, each on its own descriptor
C14_Witness ==
    /\ Len(sess) = 2
    /\ sess[1].ranAfter = 2
    /\ sess[1].ret = 262 /\ sess[1].fd = sess[1].conn
    /\ sess[2].ret = 262 /\ sess[2].fd = sess[2].conn
    /\ sess[1].conn # sess[2].conn

\* C15: no failure in a session ends the process.  SIGPIPE is blocked before
\* a thread exists, so every thread blocks it; whatever has failed, the
\* process is alive and main is in its loop, not waiting for any session,
\* ready to accept the next connection.
C15_ProcessSurvives ==
    /\ proc.alive
    /\ \A i \in Sessions : "SIGPIPE" \in sess[i].sigmask
    /\ heap # <<>> => "SIGPIPE" \in proc.blocked
    /\ proc.pc # "setup" => proc.pc = "loop" /\ MainResumes(sess)

\* C16: when serve has returned, by whatever return statement, the
\* client_info of the session and its parser have each been released, and
\* nothing is ever released twice.
C16_ReleasedExactlyOnce ==
    \A i \in Sessions :
        LET s == sess[i]
            client == heap[s.vargp]
        IN  /\ client.frees <= 1 /\ s.parser.frees <= 1
            /\ s.pc = "done" =>
                  /\ client.alloc = "freed" /\ client.frees = 1
                  /\ s.parser.alloc = "freed" /\ s.parser.frees = 1

\* the outbound request of s in full, whatever the size of a buffer
WholeRequest(s) ==
    AppendUserAgent(AppendHeaders("GET " \o s.path \o " HTTP/1.0\r\n", s.parser.headers))

\* C17: the string stored in request, and in header_line for every header,
\* fits the MAXLINE bytes of the array; and a request that does not fit is
\* rejected: it is not sent to an origin.
C17_RequestFitsBuffer ==
    \A i \in Sessions :
        LET s == sess[i] IN
        /\ Fits(s.request)
        /\ \A k \in DOMAIN s.parser.headers : Fits(HeaderText(s.parser.headers[k]))
        /\ (s.path # NULL /\ ~Fits(WholeRequest(s))) =>
              ~Called(s, "open_clientfd") /\ s.originIn = ""

C19_ConnectsToTarget ==
    \A i \in Sessions :
        LET s == sess[i] IN
        Called(s, "open_clientfd") =>
            /\ s.target[1] = s.parser.host
            /\ s.parser.port = NULL => s.target[2] = "80"
            /\ s.parser.port # NULL => s.target[2] = s.parser.port

\* a target without a port has been connected to on port 80
C19_Witness ==
    \E i \in Sessions :
        LET s == sess[i] IN
        /\ s.parser.port = NULL
        /\ s.parser.host = "example.com"
        /\ s.clientfd = "open"
        /\ s.target = <<"example.com", "80">>

\* C20: a failed read from the origin, like a failed write to the client,
\* ends the relay loop: once a read or write of the loop has failed the
\* session is at the close after the loop or has returned, and the value a
\* failed read returned is never taken as a number of bytes received.
C20_RelayErrorEndsLoop ==
    \A i \in Sessions :
        LET s == sess[i] IN
        /\ s.relayErr => s.pc \in {"close", "done"}
        /\ s.response_size < 0 => s.pc # "write"

=============================================================================
